---- MODULE Spec2Model ----
(***************************************************************************)
(* clarifai-go, requests.go: the four operations of the client (Info, Tag, *)
(* Color, Feedback), their request validation, the call each makes to the  *)
(* transport (Client.commonHTTPRequest) and the decoding of the transport's*)
(* bytes into the response envelope (encoding/json into the declared       *)
(* struct types, document identifiers into math/big.Int).                  *)
(*                                                                         *)
(* One action per operation.  An action takes the caller's request and the *)
(* result the transport gives to this invocation as inputs and records     *)
(* what the invocation did: the transport calls it made, the order of its  *)
(* steps and the pair (envelope, error) it returned.                       *)
(***************************************************************************)
EXTENDS Integers, Sequences, FiniteSets, TLC

----------------------------------------------------------------------------
(* Bounds of the model.                                                    *)

\* Longest string slice a caller puts in a request.
MaxURLs == 2

----------------------------------------------------------------------------
(* Go values.                                                              *)

\* A []string: nil, or a (possibly empty) sequence of strings.
NilSlice == [isNil |-> TRUE, elems |-> <<>>]

Slice(s) == [isNil |-> FALSE, elems |-> s]

\* len(s): 0 for the nil slice.
len(s) == Len(s.elems)

\* An error value.  kind "nil" is Go's nil error.
NoError == [kind |-> "nil", msg |-> ""]

ErrorsNew(msg) == [kind |-> "validation", msg |-> msg]

TransportError(msg) == [kind |-> "transport", msg |-> msg]

\* *json.SyntaxError, *json.UnmarshalTypeError, or the error of an
\* UnmarshalJSON method.
DecodeError(msg) == [kind |-> "decode", msg |-> msg]

\* A nil pointer / a pointer to v.
NilPtr == [isNil |-> TRUE]

Ptr(v) == [isNil |-> FALSE, v |-> v]

----------------------------------------------------------------------------
(* JSON text, as the values it spells.  A number keeps its literal: the    *)
(* sequence of its characters, 0..9 for the digits, Dot and Minus.  An     *)
(* object keeps its members in wire order, as <<key, value>> pairs.        *)

Dot == 10

Minus == 11

JNull == [t |-> "null", s |-> "", lit |-> <<>>, elems |-> <<>>]

JString(s) == [t |-> "string", s |-> s, lit |-> <<>>, elems |-> <<>>]

JNumber(lit) == [t |-> "number", s |-> "", lit |-> lit, elems |-> <<>>]

JArray(elems) == [t |-> "array", s |-> "", lit |-> <<>>, elems |-> elems]

JObject(members) == [t |-> "object", s |-> "", lit |-> <<>>, elems |-> members]

\* The []byte the transport returns: nil or empty, bytes that are not JSON,
\* or the JSON text of v.
RawEmpty == [syntax |-> "empty", v |-> JNull]

RawInvalid == [syntax |-> "invalid", v |-> JNull]

RawJSON(v) == [syntax |-> "ok", v |-> v]

----------------------------------------------------------------------------
(* math/big.Int: sign and magnitude, the magnitude a little-endian         *)
(* sequence of words without leading zero words (big.nat).                 *)

\* Radix of a word.  The model's words are narrower than the machine's so
\* that the identifiers of the model span several words.
WordBase == 65536

\* z*y + r (big.nat.mulAddWW).
RECURSIVE mulAddWW(_, _, _)
mulAddWW(z, y, r) ==
    IF z = <<>>
    THEN IF r = 0 THEN <<>> ELSE <<r>>
    ELSE LET t == Head(z) * y + r
         IN  <<t % WordBase>> \o mulAddWW(Tail(z), y, t \div WordBase)

\* z without its leading (most significant) zero words (big.nat.norm).
RECURSIVE norm(_)
norm(z) ==
    IF z = <<>> \/ z[Len(z)] # 0 THEN z ELSE norm(SubSeq(z, 1, Len(z) - 1))

\* Quotient and remainder of z by the word y (big.nat.divW), quotient not
\* normalised.
RECURSIVE divW(_, _)
divW(z, y) ==
    IF z = <<>>
    THEN [q |-> <<>>, r |-> 0]
    ELSE LET hi == divW(Tail(z), y)
             t  == hi.r * WordBase + Head(z)
         IN  [q |-> <<t \div y>> \o hi.q, r |-> t % y]

\* The magnitude spelled by decimal digits ds (big.nat.scan, base 10).
RECURSIVE natFromDigits(_, _)
natFromDigits(ds, acc) ==
    IF ds = <<>> THEN acc
    ELSE natFromDigits(Tail(ds), mulAddWW(acc, 10, Head(ds)))

\* The decimal digits of a magnitude, most significant first
\* (big.nat.itoa); <<0>> for zero.
RECURSIVE natDigits(_, _)
natDigits(z, acc) ==
    IF z = <<>>
    THEN IF acc = <<>> THEN <<0>> ELSE acc
    ELSE LET d == divW(z, 10)
         IN  natDigits(norm(d.q), <<d.r>> \o acc)

BigInt(neg, abs) == [neg |-> neg, abs |-> abs]

\* big.Int.String(): the decimal literal, with Minus before a negative.
BigString(x) ==
    IF x.neg THEN <<Minus>> \o natDigits(x.abs, <<>>)
    ELSE natDigits(x.abs, <<>>)

AllDigits(lit) == \A i \in 1..Len(lit) : lit[i] \in 0..9

\* Mutant of BigIntUnmarshalJSON: the identifier is read into 64 bits (four
\* words), and the words above them are lost.
BigIntUnmarshalJSON64(lit) ==
    LET neg  == lit # <<>> /\ Head(lit) = Minus
        body == IF neg THEN Tail(lit) ELSE lit
    IN  IF body # <<>> /\ AllDigits(body)
        THEN LET full == natFromDigits(body, <<>>)
                 abs  == norm(SubSeq(full, 1, IF Len(full) < 4 THEN Len(full) ELSE 4))
             IN  [ok |-> TRUE, x |-> BigInt(neg /\ abs # <<>>, abs)]
        ELSE [ok |-> FALSE, x |-> BigInt(FALSE, <<>>)]

\* big.Int.UnmarshalJSON on the text of a JSON number: an optional sign and
\* decimal digits give the integer; any other character is an error.
\* (A JSON number has no leading zeros and no prefix, so base 0 reads it as
\* decimal.)
BigIntUnmarshalJSON(lit) ==
    LET neg  == lit # <<>> /\ Head(lit) = Minus
        body == IF neg THEN Tail(lit) ELSE lit
    IN  IF body # <<>> /\ AllDigits(body)
        THEN LET abs == natFromDigits(body, <<>>)
             IN  [ok |-> TRUE, x |-> BigInt(neg /\ abs # <<>>, abs)]
        ELSE [ok |-> FALSE, x |-> BigInt(FALSE, <<>>)]

----------------------------------------------------------------------------
(* The response types and their json tags.  Of each struct the model keeps *)
(* the status fields, the document identifiers and the strings beside them;*)
(* the payload fields that no property below reads (InfoResp's limits,     *)
(* TagResp.Meta, TagResult.Result, Color) are left out, and their wire     *)
(* keys are then unknown keys, which encoding/json skips.                  *)

\* The zero value new(T) points to, by type.
Zero(typ) ==
    CASE typ = "string" -> ""
      [] typ = "*big.Int" -> NilPtr
      [] typ = "InfoResp" ->
            [StatusCode |-> "", StatusMessage |-> "",
             Results |-> [DefaultLanguage |-> "", DefaultModel |-> ""]]
      [] typ = "InfoResp.Results" -> [DefaultLanguage |-> "", DefaultModel |-> ""]
      [] typ = "TagResp" -> [StatusCode |-> "", StatusMessage |-> "", Results |-> <<>>]
      [] typ = "TagResult" ->
            [DocID |-> NilPtr, URL |-> "", StatusCode |-> "", StatusMessage |-> "",
             LocalID |-> "", DocIDString |-> ""]
      [] typ = "ColorResp" -> [StatusCode |-> "", StatusMessage |-> "", Results |-> <<>>]
      [] typ = "ColorResp.Results" -> [DocID |-> NilPtr, URL |-> "", DocIDString |-> ""]
      [] typ = "FeedbackResp" -> [StatusCode |-> "", StatusMessage |-> ""]
      [] OTHER -> <<>>

\* The field a wire key names in a struct type (its json tag), "" when the
\* type has no such field.
FieldOf(typ, key) ==
    CASE typ \in {"InfoResp", "TagResp", "ColorResp", "FeedbackResp"}
              /\ key = "status_code" -> "StatusCode"
      [] typ \in {"InfoResp", "TagResp", "ColorResp", "FeedbackResp"}
              /\ key = "status_msg" -> "StatusMessage"
      [] typ \in {"InfoResp", "TagResp", "ColorResp"} /\ key = "results" -> "Results"
      [] typ = "InfoResp.Results" /\ key = "default_language" -> "DefaultLanguage"
      [] typ = "InfoResp.Results" /\ key = "default_model" -> "DefaultModel"
      [] typ \in {"TagResult", "ColorResp.Results"} /\ key = "docid" -> "DocID"
      [] typ \in {"TagResult", "ColorResp.Results"} /\ key = "url" -> "URL"
      [] typ \in {"TagResult", "ColorResp.Results"} /\ key = "docid_str" -> "DocIDString"
      [] typ = "TagResult" /\ key = "status_code" -> "StatusCode"
      [] typ = "TagResult" /\ key = "status_msg" -> "StatusMessage"
      [] typ = "TagResult" /\ key = "local_id" -> "LocalID"
      [] OTHER -> ""

\* The declared type of a field.
FieldType(typ, f) ==
    CASE f = "DocID" -> "*big.Int"
      [] typ = "InfoResp" /\ f = "Results" -> "InfoResp.Results"
      [] typ = "TagResp" /\ f = "Results" -> "[]TagResult"
      [] typ = "ColorResp" /\ f = "Results" -> "[]ColorResp.Results"
      [] OTHER -> "string"

IsStruct(typ) ==
    typ \in {"InfoResp", "InfoResp.Results", "TagResp", "TagResult", "ColorResp",
             "ColorResp.Results", "FeedbackResp"}

ElemType(typ) ==
    IF typ = "[]TagResult" THEN "TagResult" ELSE "ColorResp.Results"

----------------------------------------------------------------------------
(* encoding/json's decoder.  A decoding state st is the destination's      *)
(* value v, the first saved error (a type mismatch: decoding goes on) and  *)
(* the error that aborted the decoding (an UnmarshalJSON method's).        *)

\* decodeState.saveError: only the first error is kept.
saveError(st, e) ==
    IF st.saved = NoError THEN [st EXCEPT !.saved = e] ELSE st

RECURSIVE value(_, _, _)
RECURSIVE object(_, _, _)
RECURSIVE array(_, _, _)

\* The members of an object, in wire order, into a struct of type typ.
object(typ, members, st) ==
    IF members = <<>> \/ st.abort # NoError THEN st
    ELSE LET key == Head(members)[1]
             f   == FieldOf(typ, key)
         IN  IF f = "" THEN object(typ, Tail(members), st)
             ELSE LET sub == value(FieldType(typ, f), Head(members)[2],
                                   [v |-> st.v[f], saved |-> st.saved, abort |-> NoError])
                  IN  object(typ, Tail(members),
                             [v |-> [st.v EXCEPT ![f] = sub.v],
                              saved |-> sub.saved, abort |-> sub.abort])

\* The elements of an array, appended one by one to the slice st.v; the
\* element being decoded when the decoding aborts stays in the slice.
array(typ, elems, st) ==
    IF elems = <<>> \/ st.abort # NoError THEN st
    ELSE LET sub == value(typ, Head(elems),
                          [v |-> Zero(typ), saved |-> st.saved, abort |-> NoError])
         IN  array(typ, Tail(elems),
                   [v |-> Append(st.v, sub.v), saved |-> sub.saved, abort |-> sub.abort])

\* One JSON value j into a destination of type typ (decodeState.value,
\* .object, .array and .literalStore).
value(typ, j, st) ==
    CASE typ = "*big.Int" ->
            \* big.Int has an UnmarshalJSON method: a null makes the pointer
            \* nil, any other value is handed to the method as text, and the
            \* method's error ends the decoding.
            IF j.t = "null" THEN [st EXCEPT !.v = NilPtr]
            ELSE LET r == IF j.t = "number" THEN BigIntUnmarshalJSON(j.lit)
                          ELSE [ok |-> FALSE, x |-> BigInt(FALSE, <<>>)]
                 IN  IF r.ok THEN [st EXCEPT !.v = Ptr(r.x)]
                     ELSE [st EXCEPT !.v = Ptr(r.x),
                                     !.abort = DecodeError("math/big: cannot unmarshal")]
      [] typ = "string" ->
            IF j.t = "string" THEN [st EXCEPT !.v = j.s]
            ELSE IF j.t = "null" THEN st
            ELSE saveError(st, DecodeError("json: cannot unmarshal into string"))
      [] IsStruct(typ) ->
            IF j.t = "object" THEN object(typ, j.elems, st)
            ELSE IF j.t = "null" THEN st
            ELSE saveError(st, DecodeError("json: cannot unmarshal into struct"))
      [] OTHER ->
            IF j.t = "array"
            THEN array(ElemType(typ), j.elems, [st EXCEPT !.v = <<>>])
            ELSE IF j.t = "null" THEN [st EXCEPT !.v = <<>>]
            ELSE saveError(st, DecodeError("json: cannot unmarshal into slice"))

\* json.Unmarshal(res, new(typ)): the value new(typ) points to afterwards,
\* and the error.  Bytes that are not JSON (nil and empty bytes too) fail
\* the syntax check before anything is stored.
Unmarshal(res, typ) ==
    IF res.syntax = "empty"
    THEN [v |-> Zero(typ), err |-> DecodeError("unexpected end of JSON input")]
    ELSE IF res.syntax = "invalid"
    THEN [v |-> Zero(typ), err |-> DecodeError("invalid character")]
    ELSE LET st == value(typ, res.v,
                         [v |-> Zero(typ), saved |-> NoError, abort |-> NoError])
         IN  [v |-> st.v, err |-> IF st.abort # NoError THEN st.abort ELSE st.saved]

----------------------------------------------------------------------------
(* The request types.                                                      *)

TagRequest(URLs, LocalIDs, Model) ==
    [URLs |-> URLs, LocalIDs |-> LocalIDs, Model |-> Model]

ColorRequest(URLs, LocalIDs) == [URLs |-> URLs, LocalIDs |-> LocalIDs]

FeedbackForm(DocIDs, URLs, AddTags, RemoveTags, DissimilarDocIDs, SimilarDocIDs, SearchClick) ==
    [DocIDs |-> DocIDs, URLs |-> URLs, AddTags |-> AddTags,
     RemoveTags |-> RemoveTags, DissimilarDocIDs |-> DissimilarDocIDs,
     SimilarDocIDs |-> SimilarDocIDs, SearchClick |-> SearchClick]

----------------------------------------------------------------------------
(* The transport.  client.commonHTTPRequest(jsonBody, endpoint, verb,      *)
(* retry) returns ([]byte, error); a call is recorded with its arguments.  *)

\* The jsonBody argument, an interface{}: nil, or a request with its type.
NilBody == [type |-> "nil"]

Body(typ, r) == [type |-> typ, v |-> r]

commonHTTPRequest(jsonBody, endpoint, verb, retry) ==
    [body |-> jsonBody, endpoint |-> endpoint, method |-> verb, multipart |-> retry]

\* What an operation did and returned: the envelope pointer and the error,
\* the transport calls made, and the steps taken, in order.
Return(env, err, calls, steps) ==
    [env |-> env, err |-> err, calls |-> calls, steps |-> steps]

----------------------------------------------------------------------------
(* The operations.  t is the ([]byte, error) the transport returns to the  *)
(* call the operation makes.                                               *)

\* Mutant of Info: the request is sent with POST.
InfoPost(t) ==
    LET call == commonHTTPRequest(NilBody, "info", "POST", FALSE)
    IN  IF t.err # NoError
        THEN Return(NilPtr, t.err, <<call>>, <<"transport">>)
        ELSE LET d == Unmarshal(t.res, "InfoResp")
             IN  Return(Ptr(d.v), d.err, <<call>>, <<"transport", "decode">>)

\* Mutant of Info: no envelope is returned with a decoding error.
InfoNilOnDecodeError(t) ==
    LET call == commonHTTPRequest(NilBody, "info", "GET", FALSE)
    IN  IF t.err # NoError
        THEN Return(NilPtr, t.err, <<call>>, <<"transport">>)
        ELSE LET d == Unmarshal(t.res, "InfoResp")
             IN  Return(IF d.err # NoError THEN NilPtr ELSE Ptr(d.v), d.err, <<call>>,
                        <<"transport", "decode">>)

Info(t) ==
    LET call == commonHTTPRequest(NilBody, "info", "GET", FALSE)
    IN  IF t.err # NoError
        THEN Return(NilPtr, t.err, <<call>>, <<"transport">>)
        ELSE LET d == Unmarshal(t.res, "InfoResp")
             IN  Return(Ptr(d.v), d.err, <<call>>, <<"transport", "decode">>)

\* Mutant of Tag: a status code other than OK in the decoded envelope is
\* returned as an error.
TagStatusAsError(req, t) ==
    IF len(req.URLs) < 1
    THEN Return(NilPtr, ErrorsNew("Requires at least one url"), <<>>, <<"validate">>)
    ELSE LET call == commonHTTPRequest(Body("TagRequest", req), "tag", "POST", FALSE)
         IN  IF t.err # NoError
             THEN Return(NilPtr, t.err, <<call>>, <<"validate", "transport">>)
             ELSE LET d == Unmarshal(t.res, "TagResp")
                  IN  Return(Ptr(d.v),
                             IF d.err = NoError /\ d.v.StatusCode # "OK"
                             THEN ErrorsNew(d.v.StatusMessage) ELSE d.err,
                             <<call>>, <<"validate", "transport", "decode">>)

\* Mutant of Tag: a failed transport call is made once more.
TagRetry(req, t) ==
    IF len(req.URLs) < 1
    THEN Return(NilPtr, ErrorsNew("Requires at least one url"), <<>>, <<"validate">>)
    ELSE LET call == commonHTTPRequest(Body("TagRequest", req), "tag", "POST", FALSE)
         IN  IF t.err # NoError
             THEN Return(NilPtr, t.err, <<call, call>>,
                         <<"validate", "transport", "transport">>)
             ELSE LET d == Unmarshal(t.res, "TagResp")
                  IN  Return(Ptr(d.v), d.err, <<call>>,
                             <<"validate", "transport", "decode">>)

Tag(req, t) ==
    IF len(req.URLs) < 1
    THEN Return(NilPtr, ErrorsNew("Requires at least one url"), <<>>, <<"validate">>)
    ELSE LET call == commonHTTPRequest(Body("TagRequest", req), "tag", "POST", FALSE)
         IN  IF t.err # NoError
             THEN Return(NilPtr, t.err, <<call>>, <<"validate", "transport">>)
             ELSE LET d == Unmarshal(t.res, "TagResp")
                  IN  Return(Ptr(d.v), d.err, <<call>>,
                             <<"validate", "transport", "decode">>)

\* Mutant of Color: the URL slice is tested against nil, not for its
\* length.
ColorNilURLs(req, t) ==
    IF req.URLs.isNil
    THEN Return(NilPtr, ErrorsNew("Requires at least one url"), <<>>, <<"validate">>)
    ELSE LET call == commonHTTPRequest(Body("ColorRequest", req), "color", "POST", FALSE)
         IN  IF t.err # NoError
             THEN Return(NilPtr, t.err, <<call>>, <<"validate", "transport">>)
             ELSE LET d == Unmarshal(t.res, "ColorResp")
                  IN  Return(Ptr(d.v), d.err, <<call>>,
                             <<"validate", "transport", "decode">>)

Color(req, t) ==
    IF len(req.URLs) < 1
    THEN Return(NilPtr, ErrorsNew("Requires at least one url"), <<>>, <<"validate">>)
    ELSE LET call == commonHTTPRequest(Body("ColorRequest", req), "color", "POST", FALSE)
         IN  IF t.err # NoError
             THEN Return(NilPtr, t.err, <<call>>, <<"validate", "transport">>)
             ELSE LET d == Unmarshal(t.res, "ColorResp")
                  IN  Return(Ptr(d.v), d.err, <<call>>,
                             <<"validate", "transport", "decode">>)

\* Feedback tests its two slices against nil, and hands the transport's
\* bytes to json.Unmarshal whatever error came with them: err is assigned
\* again by the decoding.
Feedback(form, t) ==
    IF form.DocIDs.isNil /\ form.URLs.isNil
    THEN Return(NilPtr, ErrorsNew("Requires at least one docid or url"), <<>>,
                <<"validate">>)
    ELSE IF ~form.DocIDs.isNil /\ ~form.URLs.isNil
    THEN Return(NilPtr,
                ErrorsNew("Request must provide exactly one of the following fields: {'DocIDs', 'URLs'}"),
                <<>>, <<"validate">>)
    ELSE LET call == commonHTTPRequest(Body("FeedbackForm", form), "feedback", "POST",
                                       FALSE)
             d    == Unmarshal(t.res, "FeedbackResp")
         IN  Return(Ptr(d.v), d.err, <<call>>, <<"validate", "transport", "decode">>)

----------------------------------------------------------------------------
(* The inputs: the requests a caller builds and the results the transport  *)
(* gives.                                                                  *)

URL(i) == "http://x/" \o ToString(i) \o ".jpg"

\* The slices of URLs: nil, empty, and the first n URLs for n up to MaxURLs.
URLSlices ==
    {NilSlice, Slice(<<>>)} \cup {Slice([i \in 1..n |-> URL(i)]) : n \in 1..MaxURLs}

\* An optional slice: unset, or set to one string.
Optional(s) == {NilSlice, Slice(<<s>>)}

\* The slices Feedback's validation tells apart: nil, empty, populated.
DocIDSlices == {NilSlice, Slice(<<>>), Slice(<<"78c742b9dee940c8cf2a06f860025141">>)}

FeedbackURLSlices == {NilSlice, Slice(<<>>), Slice(<<URL(1)>>)}

TagRequests ==
    {TagRequest(u, l, m) : u \in URLSlices, l \in Optional("id1"), m \in {"", "general-v1.3"}}

ColorRequests == {ColorRequest(u, l) : u \in URLSlices, l \in Optional("id1")}

\* The optional fields of a form: none set, one of the five set, all set.
OptionalFields ==
    {<<a, r, ds, sm, sc>> :
        a \in Optional("cat"), r \in Optional("dog"), ds \in Optional("d2"),
        sm \in Optional("d3"), sc \in Optional("d4")}

OptionalCombinations ==
    {o \in OptionalFields : Cardinality({i \in 1..5 : ~o[i].isNil}) \in {0, 1, 5}}

FeedbackForms ==
    {FeedbackForm(d, u, o[1], o[2], o[3], o[4], o[5]) :
        d \in DocIDSlices, u \in FeedbackURLSlices, o \in OptionalCombinations}

\* Document identifiers on the wire: a small one, 2^63 + 1, 2^64, and one of
\* 24 digits.
SmallDocID == <<1, 2, 3>>

TwoPow63Plus1 == <<9, 2, 2, 3, 3, 7, 2, 0, 3, 6, 8, 5, 4, 7, 7, 5, 8, 0, 9>>

TwoPow64 == <<1, 8, 4, 4, 6, 7, 4, 4, 0, 7, 3, 7, 0, 9, 5, 5, 1, 6, 1, 6>>

DocID24 == <<1, 2, 3, 4, 5, 6, 7, 8, 9, 0, 1, 2, 3, 4, 5, 6, 7, 8, 9, 0, 1, 2, 3, 4>>

DocIDLiterals == {SmallDocID, TwoPow63Plus1, TwoPow64, DocID24}

\* The string the service sends as docid_str beside a docid.
DocIDStr(lit) ==
    CASE lit = SmallDocID -> "123"
      [] lit = TwoPow63Plus1 -> "9223372036854775809"
      [] lit = TwoPow64 -> "18446744073709551616"
      [] OTHER -> "123456789012345678901234"

\* One element of "results": docid and url, with or without docid_str.
ResultDocID(lit) ==
    JObject(<< <<"docid", JNumber(lit)>>, <<"url", JString(URL(1))>> >>)

ResultDocIDStr(lit) ==
    JObject(<< <<"docid", JNumber(lit)>>, <<"url", JString(URL(1))>>,
               <<"docid_str", JString(DocIDStr(lit))>> >>)

\* A docid the service sends as a string, one with a fraction, and none.
ResultBadDocID ==
    JObject(<< <<"docid", JString("123")>>, <<"url", JString(URL(1))>> >>)

ResultFractionDocID ==
    JObject(<< <<"url", JString(URL(1))>>, <<"docid", JNumber(<<1, Dot, 5>>)>> >>)

ResultNoDocID == JObject(<< <<"url", JString(URL(1))>>, <<"local_id", JString("id1")>> >>)

Envelope(code, msg, more) ==
    RawJSON(JObject(<< <<"status_code", JString(code)>>, <<"status_msg", JString(msg)>> >>
                    \o more))

\* Bodies every endpoint may answer with: no bytes, bytes that are not
\* JSON, null, an array, an empty object, envelopes with a success and with a
\* failure status, one with an unknown key, and one whose status code is a
\* number.
CommonBodies ==
    {RawEmpty, RawInvalid, RawJSON(JNull), RawJSON(JArray(<<>>)), RawJSON(JObject(<<>>)),
     Envelope("OK", "All images in request have completed successfully.", <<>>),
     Envelope("ALL_ERROR", "Data loading failed.", <<>>),
     Envelope("OK", "", << <<"request_id", JString("r1")>> >>),
     RawJSON(JObject(<< <<"status_code", JNumber(<<5>>)>>,
                        <<"status_msg", JString("m")>> >>))}

ResultsBodies ==
    {Envelope("OK", "", << <<"results", JArray(<<r>>)>> >>) :
        r \in {ResultDocID(l) : l \in DocIDLiterals}
              \cup {ResultDocIDStr(l) : l \in DocIDLiterals}
              \cup {ResultBadDocID, ResultFractionDocID, ResultNoDocID}}
    \cup {Envelope("PARTIAL_ERROR", "Some images in request have failed.",
                   << <<"results", JArray(<<ResultBadDocID, ResultDocID(TwoPow64)>>)>> >>),
          Envelope("OK", "",
                   << <<"results", JArray(<<ResultDocIDStr(DocID24), ResultBadDocID>>)>> >>),
          Envelope("OK", "", << <<"results", JString("none")>> >>)}

InfoBodies ==
    {Envelope("OK", "",
              << <<"results", JObject(<< <<"max_batch_size", JNumber(<<1, 2, 8>>)>>,
                                         <<"default_model", JString("general-v1.3")>>,
                                         <<"default_language", JString("en")>> >>)>> >>)}

Bodies(endpoint) ==
    CASE endpoint = "info" -> CommonBodies \cup InfoBodies
      [] endpoint \in {"tag", "color"} -> CommonBodies \cup ResultsBodies
      [] OTHER -> CommonBodies

\* What the transport returns to a call: bytes and no error, or an error,
\* with no bytes or with the body of the failed response.
TransportResults(endpoint) ==
    {[res |-> b, err |-> NoError] : b \in Bodies(endpoint)}
    \cup {[res |-> RawEmpty, err |-> TransportError("dial tcp: connection refused")],
          [res |-> RawEmpty, err |-> TransportError("THROTTLED")],
          [res |-> Envelope("ALL_ERROR", "Data loading failed.", <<>>),
           err |-> TransportError("ALL_ERROR")]}

----------------------------------------------------------------------------
(* The state: the latest invocation.                                       *)

VARIABLES
    op,      \* the operation invoked: "Info", "Tag", "Color", "Feedback"
    req,     \* the request it was given
    resp,    \* what the transport returned to it, when it called the transport
    calls,   \* the transport calls it made, in order
    steps,   \* the steps it took, in order
    ret      \* the (envelope, error) it returned

vars == <<op, req, resp, calls, steps, ret>>

NoRequest == [type |-> "none"]

NoResponse == [called |-> FALSE, res |-> RawEmpty, err |-> NoError]

Init ==
    /\ op = "none"
    /\ req = NoRequest
    /\ resp = NoResponse
    /\ calls = <<>>
    /\ steps = <<>>
    /\ ret = [env |-> NilPtr, err |-> NoError]

\* What the transport returned to an invocation that did and returned out:
\* t if the transport was called.
Response(out, t) ==
    IF out.calls = <<>> THEN NoResponse
    ELSE [called |-> TRUE, res |-> t.res, err |-> t.err]

\* The record of an invocation that did and returned out.
Returns(out, t) ==
    /\ resp' = Response(out, t)
    /\ calls' = out.calls
    /\ steps' = out.steps
    /\ ret' = [env |-> out.env, err |-> out.err]

DoInfo ==
    \E t \in TransportResults("info") :
        /\ op' = "Info"
        /\ req' = NoRequest
        /\ Returns(Info(t), t)

DoTag ==
    \E r \in TagRequests : \E t \in TransportResults("tag") :
        /\ op' = "Tag"
        /\ req' = r
        /\ Returns(Tag(r, t), t)

DoColor ==
    \E r \in ColorRequests : \E t \in TransportResults("color") :
        /\ op' = "Color"
        /\ req' = r
        /\ Returns(Color(r, t), t)

DoFeedback ==
    \E f \in FeedbackForms : \E t \in TransportResults("feedback") :
        /\ op' = "Feedback"
        /\ req' = f
        /\ Returns(Feedback(f, t), t)

Next == DoInfo \/ DoTag \/ DoColor \/ DoFeedback

Spec == Init /\ [][Next]_vars

----------------------------------------------------------------------------
(* Reading the wire and the record of an invocation.                       *)

\* The envelope type an operation decodes into.
EnvelopeType(o) ==
    CASE o = "Info" -> "InfoResp"
      [] o = "Tag" -> "TagResp"
      [] o = "Color" -> "ColorResp"
      [] OTHER -> "FeedbackResp"

\* The values of the members named key of a JSON object, in wire order.
Members(j, key) ==
    IF j.t # "object" THEN <<>>
    ELSE SelectSeq(j.elems, LAMBDA m : m[1] = key)

\* The string the wire gives for key at the top of a body: that of the last
\* string member of that name, "" when there is none.
WireString(res, key) ==
    LET ms == SelectSeq(Members(res.v, key), LAMBDA m : m[2].t = "string")
    IN  IF res.syntax # "ok" \/ ms = <<>> THEN "" ELSE ms[Len(ms)][2].s

\* The elements of the "results" array of a body, <<>> without one.
WireResults(res) ==
    LET ms == IF res.syntax = "ok" THEN Members(res.v, "results") ELSE <<>>
    IN  IF ms # <<>> /\ ms[Len(ms)][2].t = "array" THEN ms[Len(ms)][2].elems ELSE <<>>

\* A wire result whose docid is an integer literal / is present but is none.
HasIntegerDocID(w) ==
    /\ Len(Members(w, "docid")) = 1
    /\ Members(w, "docid")[1][2].t = "number"
    /\ AllDigits(Members(w, "docid")[1][2].lit)

HasOtherDocID(w) ==
    /\ Members(w, "docid") # <<>>
    /\ ~HasIntegerDocID(w)
    /\ Members(w, "docid")[1][2].t # "null"

WireDocID(w) == Members(w, "docid")[1][2].lit

\* The wire results up to (not including) the first whose docid is not an
\* integer literal: those the decoder reaches and stores whole.
StoredResults(ws) ==
    {i \in 1..Len(ws) : \A k \in 1..i : ~HasOtherDocID(ws[k])}

ValidationFailed == ret.err.kind = "validation"

TransportFailed == resp.called /\ resp.err # NoError

Decodes == Unmarshal(resp.res, EnvelopeType(op)).err = NoError

----------------------------------------------------------------------------
(* C1.  Feedback on a form whose document identifiers and URLs are both    *)
(* empty (nil or of length zero) returns the "at least one" validation     *)
(* error, on a form where both are non-empty the "exactly one" validation  *)
(* error, and in both cases makes no transport call.                       *)
C1_FeedbackEmptyOrBothRejected ==
    op = "Feedback" =>
        /\ len(req.DocIDs) = 0 /\ len(req.URLs) = 0 =>
              /\ ret.err = ErrorsNew("Requires at least one docid or url")
              /\ calls = <<>>
        /\ len(req.DocIDs) > 0 /\ len(req.URLs) > 0 =>
              /\ ret.err = ErrorsNew("Request must provide exactly one of the following fields: {'DocIDs', 'URLs'}")
              /\ calls = <<>>

(* C2.  Feedback on a form with exactly one of document identifiers and    *)
(* URLs non-empty and the other empty (nil or of length zero) passes       *)
(* validation and calls the feedback endpoint, whatever the optional       *)
(* fields hold.                                                            *)
C2_FeedbackExactlyOnePasses ==
    /\ op = "Feedback"
    /\ \/ len(req.DocIDs) > 0 /\ len(req.URLs) = 0
       \/ len(req.DocIDs) = 0 /\ len(req.URLs) > 0
    => /\ ~ValidationFailed
       /\ Len(calls) = 1
       /\ calls[1].endpoint = "feedback"

(* C3.  Whenever the transport returns a failure to an operation's call,   *)
(* the operation returns exactly that failure, and has called once.        *)
C3_TransportFailurePropagated ==
    TransportFailed => ret.err = resp.err /\ Len(calls) = 1

(* C4.  Tag and Color on a request whose URL slice is empty (nil or of     *)
(* length zero) return the validation error with no envelope and make no   *)
(* transport call; on a non-empty URL slice validation passes and the      *)
(* transport is called.                                                    *)
C4_EmptyURLsRejected ==
    op \in {"Tag", "Color"} =>
        IF len(req.URLs) = 0
        THEN /\ ret.err = ErrorsNew("Requires at least one url")
             /\ ret.env.isNil
             /\ calls = <<>>
             /\ ~resp.called
        ELSE /\ ~ValidationFailed
             /\ Len(calls) = 1
             /\ resp.called

\* Color on an empty, non-nil URL slice, rejected without a call.
C4_Witness ==
    /\ op = "Color"
    /\ req.URLs = Slice(<<>>)
    /\ ValidationFailed
    /\ calls = <<>>

(* C5.  An operation returns a decoding error if and only if its transport *)
(* call succeeded and the bytes do not decode into its envelope type.      *)
C5_DecodingErrorIffUndecodable ==
    op # "none" =>
        (ret.err.kind = "decode"
            <=> resp.called /\ resp.err = NoError /\ ~Decodes)

(* C6.  When validation passes, the transport succeeds and the bytes       *)
(* decode, the operation returns the decoded envelope and no error,        *)
(* whatever the envelope's status code; the envelope's status code and     *)
(* message are those on the wire.                                          *)
C6_StatusCodeNotAnError ==
    op # "none" /\ resp.called /\ resp.err = NoError /\ Decodes =>
        /\ ret.err = NoError
        /\ ~ret.env.isNil
        /\ ret.env.v.StatusCode = WireString(resp.res, "status_code")
        /\ ret.env.v.StatusMessage = WireString(resp.res, "status_msg")

\* Tag returned an envelope with a failure status and no error.
C6_Witness ==
    /\ op = "Tag"
    /\ resp.called /\ resp.err = NoError
    /\ ret.err = NoError
    /\ ~ret.env.isNil
    /\ ret.env.v.StatusCode = "ALL_ERROR"
    /\ ret.env.v.StatusMessage = "Data loading failed."

(* C7.  Every transport call of an operation carries the operation's       *)
(* endpoint and method, the caller's request unmodified as body (no body   *)
(* for Info), and a false multipart flag.                                  *)
C7_CallArguments ==
    \A i \in 1..Len(calls) :
        /\ calls[i].multipart = FALSE
        /\ calls[i].endpoint =
              (CASE op = "Info" -> "info" [] op = "Tag" -> "tag"
                 [] op = "Color" -> "color" [] OTHER -> "feedback")
        /\ calls[i].method = (IF op = "Info" THEN "GET" ELSE "POST")
        /\ IF op = "Info" THEN calls[i].body = NilBody
           ELSE /\ calls[i].body.v = req
                /\ calls[i].body.type =
                      (CASE op = "Tag" -> "TagRequest" [] op = "Color" -> "ColorRequest"
                         [] OTHER -> "FeedbackForm")

\* Info called the transport.
C7_Witness ==
    /\ op = "Info"
    /\ Len(calls) = 1
    /\ calls[1].method = "GET"
    /\ calls[1].body = NilBody

(* C8.  In a decoded Tag or Color response, every result the decoder       *)
(* stores whose wire docid is an integer literal, those above 2^63         *)
(* included, has a document identifier whose decimal form (big.Int's       *)
(* String) is the wire literal digit for digit, and its docid_str, when the*)
(* wire carries one, is kept as sent.                                      *)
C8_DocIDExact ==
    op \in {"Tag", "Color"} /\ resp.called /\ resp.err = NoError =>
        LET ws == WireResults(resp.res)
        IN  \A i \in StoredResults(ws) :
                /\ i <= Len(ret.env.v.Results)
                /\ HasIntegerDocID(ws[i]) =>
                      /\ ~ret.env.v.Results[i].DocID.isNil
                      /\ BigString(ret.env.v.Results[i].DocID.v) = WireDocID(ws[i])
                /\ ret.env.v.Results[i].DocIDString = WireString(RawJSON(ws[i]), "docid_str")

\* Tag decoded a result carrying only docid, 2^64.
C8_Witness ==
    /\ op = "Tag"
    /\ resp.called /\ resp.err = NoError
    /\ WireResults(resp.res) = <<ResultDocID(TwoPow64)>>
    /\ ret.err = NoError
    /\ Len(ret.env.v.Results) = 1
    /\ BigString(ret.env.v.Results[1].DocID.v) = TwoPow64
    /\ ret.env.v.Results[1].DocIDString = ""

\* The place of a step in an invocation.
StepRank(s) ==
    CASE s = "validate" -> 1 [] s = "transport" -> 2 [] OTHER -> 3

\* One invocation, seen as a step from the invocation before it: at most one
\* transport call, none exactly when validation fails; the steps in the
\* order validate, transport, decode; and the same return as the invocation
\* before when operation, request and transport result are the same.
C9_Invocation ==
    /\ Len(calls') <= 1
    /\ (calls' = <<>>) <=> (ret'.err.kind = "validation")
    /\ \A i, j \in 1..Len(steps') : i < j => StepRank(steps'[i]) < StepRank(steps'[j])
    /\ (\E i \in 1..Len(steps') : steps'[i] = "transport") <=> Len(calls') = 1
    /\ (\E i \in 1..Len(steps') : steps'[i] = "decode") => Len(calls') = 1
    /\ op' = op /\ req' = req /\ resp' = resp => ret' = ret /\ calls' = calls

C10_NilEnvelope ==
    /\ op \in {"Info", "Tag", "Color"} =>
          (ret.env.isNil <=> (ValidationFailed \/ TransportFailed))
    /\ op = "Feedback" => (ret.env.isNil <=> ValidationFailed)

\* Info returned a decoding error with an envelope.
C10_Witness ==
    /\ op = "Info"
    /\ ret.err.kind = "decode"
    /\ ~ret.env.isNil

====
